---- MODULE Spec2Model ----
(***************************************************************************)
(* A model of the EnreachVoice API client (src/enreachvoice.py): the       *)
(* Client constructor (discovery, password exchange, identity fetch), the  *)
(* transport wrapper invoke_api, the two query helpers get_usercalls and   *)
(* get_inbound_queuecalls, and the transcript poller get_transcript.       *)
(*                                                                         *)
(* Python values are tagged records: None, Str(s) with s a sequence of     *)
(* characters, Dict(f) with f a function from keys to values, List(items), *)
(* DateTime(t, aware) and Garbage for a response body that json() cannot   *)
(* parse.  A function of the source becomes an operator that yields        *)
(* [ret, exc, reqs]: the value returned, whether an exception left the     *)
(* function, and the HTTP requests it issued, in order.                    *)
(***************************************************************************)
EXTENDS Integers, Sequences, FiniteSets, TLC

VARIABLES
    pc,          \* position of the caller / of the running method
    op,          \* the method that runs or ran last
    args,        \* the arguments Client(...) was constructed with
    call,        \* the arguments of the running (or last) method call
    self,        \* the attributes set on the Client object: name -> value
    ret,         \* what the last call returned
    raised,      \* an exception reached the caller
    net,         \* the HTTP requests of the running (or last) call, in order
    transcript,  \* get_transcript: local transcript
    status,      \* get_transcript: local status
    retries,     \* get_transcript: local retries
    now          \* the time slept so far in the running call

vars == <<pc, op, args, call, self, ret, raised, net, transcript, status, retries, now>>

----------------------------------------------------------------------------
(* Bounds of the model *)

\* longest endpoint string the discovery service answers with
MaxLen == 3
\* time is counted in units, UnitsPerDay of them to a day
UnitsPerDay == 2
\* a time range starts at one of the units 0..MaxStart
MaxStart == 1
\* and ends at unit 0 or up to MaxOver units past the 31-day mark
MaxOver == 3

----------------------------------------------------------------------------
(* Python values *)

None == [tag |-> "None"]
Str(s) == [tag |-> "str", v |-> s]
Dict(f) == [tag |-> "dict", f |-> f]
List(items) == [tag |-> "list", items |-> items]
Garbage == [tag |-> "garbage"]
EmptyMap == [k \in {} |-> None]

Chars == {"h", "/"}
Strs(n) == UNION {[1..k -> Chars] : k \in 0..n}

\* what a function of the source yields
Return(v, reqs) == [ret |-> v, exc |-> FALSE, reqs |-> reqs]
Raise(reqs) == [ret |-> None, exc |-> TRUE, reqs |-> reqs]
\* try: ... except Exception: return None
ExceptReturnNone(r) == IF r.exc THEN Return(None, r.reqs) ELSE r

\* an HTTP response: a transport-level error, or a status code and a body
TransportError == [err |-> TRUE, status |-> 0, json |-> Garbage]
Http(code, body) == [err |-> FALSE, status |-> code, json |-> body]
\* requests.Response.ok
Ok(resp) == resp.status < 400

Request(kind, method, url, auth, params, resp, at) ==
    [kind |-> kind, method |-> method, url |-> url, auth |-> auth,
     params |-> params, resp |-> resp, at |-> at]

----------------------------------------------------------------------------
(* Client.get_apiurl *)

DISCOVERY_URL == <<"d">>

\* apiEndpoint[-1] == '/'  =>  apiEndpoint[:-1]
StripSlash(s) == IF s[Len(s)] = "/" THEN SubSeq(s, 1, Len(s) - 1) ELSE s

get_apiurl_try(resp, at) ==
    LET req == <<Request("discovery", "GET", DISCOVERY_URL, FALSE, EmptyMap, resp, at)>>
        body == resp.json
    IN  IF resp.err THEN Raise(req)
        ELSE IF resp.status # 200 THEN Return(None, req)
        ELSE IF body = Garbage THEN Raise(req)
        ELSE IF body.tag # "list" THEN Raise(req)
        ELSE IF Len(body.items) = 0 THEN Raise(req)
        ELSE IF body.items[1].tag # "dict" THEN Raise(req)
        ELSE IF "apiEndpoint" \notin DOMAIN body.items[1].f THEN Raise(req)
        ELSE LET apiEndpoint == body.items[1].f["apiEndpoint"]
             IN  IF apiEndpoint.tag # "str" THEN Raise(req)
                 ELSE IF Len(apiEndpoint.v) = 0 THEN Raise(req)
                 ELSE Return(Str(StripSlash(apiEndpoint.v)), req)

get_apiurl(resp, at) == ExceptReturnNone(get_apiurl_try(resp, at))

----------------------------------------------------------------------------
(* Client.invoke_api *)

Methods == {"GET", "POST", "PUT", "DELETE"}

invoke_api_try(obj, path, method, params, resp, at) ==
    IF method \notin Methods THEN Return(None, <<>>)
    ELSE IF path = None THEN Return(None, <<>>)
    ELSE IF Len(path.v) = 0 THEN Raise(<<>>)
    ELSE LET p == IF path.v[1] # "/" THEN <<"/">> \o path.v ELSE path.v
         IN  IF "apiEndpoint" \notin DOMAIN obj THEN Raise(<<>>)
             ELSE IF "secretkey" \notin DOMAIN obj THEN Raise(<<>>)
             ELSE LET url == obj["apiEndpoint"].v \o p
                      req == <<Request("api", method, url, TRUE, params, resp, at)>>
                  IN  IF resp.err THEN Raise(req)
                      ELSE IF resp.json = Garbage THEN Raise(req)
                      ELSE IF ~Ok(resp) THEN Return(None, req)
                      ELSE Return(resp.json, req)

\* invoke_api without its "except Exception" handler
invoke_api_uncaught(obj, path, method, params, resp, at) ==
    invoke_api_try(obj, path, method, params, resp, at)

invoke_api(obj, path, method, params, resp, at) ==
    ExceptReturnNone(invoke_api_try(obj, path, method, params, resp, at))

----------------------------------------------------------------------------
(* Client.authenticate_with_password *)

authenticate_with_password_try(obj, password, resp, at) ==
    LET url == obj["apiEndpoint"].v \o <<"/", "a">>
        req == <<Request("authuser", "POST", url, FALSE, EmptyMap, resp, at)>>
        body == resp.json
    IN  IF resp.err THEN Raise(req)
        ELSE IF resp.status # 200 THEN Return(None, req)
        ELSE IF body = Garbage THEN Raise(req)
        ELSE IF body.tag # "dict" THEN Raise(req)
        ELSE IF "SecretKey" \notin DOMAIN body.f THEN Raise(req)
        ELSE Return(body.f["SecretKey"], req)

authenticate_with_password(obj, password, resp, at) ==
    ExceptReturnNone(authenticate_with_password_try(obj, password, resp, at))

----------------------------------------------------------------------------
(* What the callers pass and what the servers answer *)

NoCall == [fn |-> "none"]

SecretKeys == {Str(<<"k">>)}
Passwords == {Str(<<"p">>)}
GivenEndpoints == {Str(<<"h">>), Str(<<"h", "/">>)}

CtorArgs ==
    [secretkey : {None} \cup SecretKeys,
     password : {None} \cup Passwords,
     apiEndpoint : {None} \cup GivenEndpoints]

DiscoveryResponses ==
    {TransportError, Http(404, Dict(EmptyMap)), Http(200, Garbage), Http(200, None),
     Http(200, List(<<>>)), Http(200, List(<<Dict(EmptyMap)>>)),
     Http(200, List(<<Dict("apiEndpoint" :> None)>>))}
    \cup {Http(200, List(<<Dict("apiEndpoint" :> Str(s))>>)) : s \in Strs(MaxLen)}

AuthResponses ==
    {TransportError, Http(401, Dict(EmptyMap)), Http(200, Garbage), Http(200, None),
     Http(200, Dict(EmptyMap)), Http(200, Dict("SecretKey" :> None))}
    \cup {Http(200, Dict("SecretKey" :> k)) : k \in SecretKeys}

UserRecords == {Dict(EmptyMap), Dict("Id" :> Str(<<"7">>))}

ApiResponses ==
    {TransportError, Http(401, Dict(EmptyMap)), Http(500, Garbage), Http(200, Garbage),
     Http(200, None)}
    \cup {Http(200, u) : u \in UserRecords}

CallMethods == Methods \cup {"PATCH"}
CallPaths == {None, Str(<<>>), Str(<<"q">>), Str(<<"/", "q">>)}

----------------------------------------------------------------------------
(* Client.__init__, one action for each of its three stages *)

\* lines 29-39: the base address
InitEndpoint ==
    /\ pc = "init_endpoint"
    /\ IF args.apiEndpoint # None
       THEN /\ self' = ("apiEndpoint" :> args.apiEndpoint)
            /\ pc' = "init_secret"
            /\ net' = net
       ELSE \E resp \in DiscoveryResponses :
              LET r == get_apiurl(resp, now)
              IN  /\ net' = net \o r.reqs
                  /\ IF r.ret = None
                     THEN pc' = "ready" /\ self' = self
                     ELSE pc' = "init_secret" /\ self' = ("apiEndpoint" :> r.ret)
    /\ UNCHANGED <<op, args, call, ret, raised, transcript, status, retries, now>>

\* the secret key stage with the tests swapped: a given password is exchanged even
\* when a secretkey was supplied
InitSecret_password_first ==
    /\ pc = "init_secret"
    /\ IF args.password # None
       THEN \E resp \in AuthResponses :
              LET r == authenticate_with_password(self, args.password, resp, now)
              IN  /\ net' = net \o r.reqs
                  /\ IF r.ret = None
                     THEN pc' = "ready" /\ self' = self
                     ELSE pc' = "init_identity" /\ self' = self @@ ("secretkey" :> r.ret)
       ELSE IF args.secretkey = None
       THEN pc' = "ready" /\ self' = self /\ net' = net
       ELSE /\ self' = self @@ ("secretkey" :> args.secretkey)
            /\ pc' = "init_identity"
            /\ net' = net
    /\ UNCHANGED <<op, args, call, ret, raised, transcript, status, retries, now>>

\* lines 41-54: the secret key
InitSecret ==
    /\ pc = "init_secret"
    /\ IF args.secretkey # None
       THEN /\ self' = self @@ ("secretkey" :> args.secretkey)
            /\ pc' = "init_identity"
            /\ net' = net
       ELSE IF args.password = None
       THEN pc' = "ready" /\ self' = self /\ net' = net
       ELSE \E resp \in AuthResponses :
              LET r == authenticate_with_password(self, args.password, resp, now)
              IN  /\ net' = net \o r.reqs
                  /\ IF r.ret = None
                     THEN pc' = "ready" /\ self' = self
                     ELSE pc' = "init_identity" /\ self' = self @@ ("secretkey" :> r.ret)
    /\ UNCHANGED <<op, args, call, ret, raised, transcript, status, retries, now>>

\* user['Id'] of line 60 raises when user is no dict or has no key 'Id'
HasId(user) == user.tag = "dict" /\ "Id" \in DOMAIN user.f

\* lines 56-60: the identity
InitIdentity ==
    /\ pc = "init_identity"
    /\ \E resp \in ApiResponses :
         LET r == invoke_api(self, Str(<<"u">>), "GET", EmptyMap, resp, now)
             user == r.ret
         IN  /\ net' = net \o r.reqs
             /\ IF user = None
                THEN pc' = "ready" /\ self' = self /\ raised' = raised
                ELSE IF ~HasId(user)
                THEN pc' = "raised" /\ self' = self /\ raised' = TRUE
                ELSE /\ pc' = "ready"
                     /\ self' = self @@ ("userid" :> user.f["Id"])
                     /\ raised' = raised
    /\ UNCHANGED <<op, args, call, ret, transcript, status, retries, now>>

\* a caller that holds the constructed object calls invoke_api
InvokeApi ==
    /\ pc = "ready"
    /\ \E path \in CallPaths, method \in CallMethods, resp \in ApiResponses :
         LET r == invoke_api(self, path, method, EmptyMap, resp, 0)
         IN  /\ op' = "invoke_api"
             /\ call' = [fn |-> "invoke_api", path |-> path, method |-> method,
                         resp |-> resp]
             /\ ret' = r.ret
             /\ raised' = r.exc
             /\ net' = r.reqs
    /\ UNCHANGED <<pc, args, self, transcript, status, retries, now>>

Init ==
    /\ pc = "init_endpoint"
    /\ op = "__init__"
    /\ args \in CtorArgs
    /\ call = NoCall
    /\ self = EmptyMap
    /\ ret = None
    /\ raised = FALSE
    /\ net = <<>>
    /\ transcript = None
    /\ status = None
    /\ retries = 0
    /\ now = 0

Next == InitEndpoint \/ InitSecret \/ InitIdentity \/ InvokeApi

Spec == Init /\ [][Next]_vars

----------------------------------------------------------------------------
(* Client.get_transcript *)

max_retries == 10
SleepSeconds == 10

Pending == Str("Pending")

\* transcript['TranscriptStatus'] raises when transcript is None or has no such key
HasStatus(t) == t.tag = "dict" /\ "TranscriptStatus" \in DOMAIN t.f

\* the loop entered whatever wait_pending says
EntersLoop_always(st, wait_pending) == st = Pending

\* line 328: status == 'Pending' and wait_pending
EntersLoop(st, wait_pending) == st = Pending /\ wait_pending

\* a loop that waits for 'Ready' instead of for the end of 'Pending'
StillPending_until_ready(st) == st # Str("Ready")

\* line 331: while status == 'Pending'
StillPending(st) == st = Pending

\* the retry budget tested with > instead of >=
BudgetSpent_late(n) == n > max_retries

\* line 332: if retries >= max_retries: break
BudgetSpent(n) == n >= max_retries

TranscriptPath == Str(<<"/", "t">>)

\* the second Pending record differs from the first in a field beside the status
TranscriptRecords ==
    {Dict("TranscriptStatus" :> Pending),
     Dict(("TranscriptStatus" :> Pending) @@ ("Progress" :> Str("half"))),
     Dict("TranscriptStatus" :> Str("Ready")),
     Dict("TranscriptStatus" :> Str("Failed")), Dict(EmptyMap)}

TranscriptResponses ==
    {TransportError, Http(404, Dict(EmptyMap))} \cup {Http(200, t) : t \in TranscriptRecords}

\* the sessions construction leaves to a caller that passed a secretkey and had the
\* base address discovered: the identity fetch succeeded, or it failed and userid is unset
GivenArgs == [secretkey |-> Str(<<"k">>), password |-> None, apiEndpoint |-> None]
PartialSession == ("apiEndpoint" :> Str(<<"h">>)) @@ ("secretkey" :> Str(<<"k">>))
ResolvedSession == PartialSession @@ ("userid" :> Str(<<"7">>))
Sessions == {PartialSession, ResolvedSession}

\* lines 320-328 and, when the loop is not entered, the return of line 342
GetTranscript ==
    /\ pc = "ready"
    /\ \E wait_pending \in BOOLEAN, resp \in TranscriptResponses :
         LET r == invoke_api(self, TranscriptPath, "GET", EmptyMap, resp, 0)
         IN  /\ op' = "get_transcript"
             /\ call' = [fn |-> "get_transcript", wait_pending |-> wait_pending]
             /\ net' = r.reqs
             /\ now' = 0
             /\ retries' = 0
             /\ transcript' = r.ret
             /\ raised' = FALSE
             /\ IF r.ret = None
                THEN pc' = "ready" /\ ret' = None /\ status' = None
                ELSE IF ~HasStatus(r.ret)
                THEN pc' = "ready" /\ ret' = None /\ status' = None
                ELSE /\ status' = r.ret.f["TranscriptStatus"]
                     /\ IF EntersLoop(status', wait_pending)
                        THEN pc' = "polling" /\ ret' = None
                        ELSE pc' = "ready" /\ ret' = r.ret
    /\ UNCHANGED <<args, self>>

\* the loop with a failed re-fetch skipped: the record fetched before is kept and returned
Poll_keep_stale ==
    /\ pc = "polling"
    /\ IF ~StillPending(status) \/ BudgetSpent(retries)
       THEN /\ pc' = "ready"
            /\ ret' = transcript
            /\ UNCHANGED <<net, now, retries, transcript, status>>
       ELSE \E resp \in TranscriptResponses :
              LET r == invoke_api(self, TranscriptPath, "GET", EmptyMap, resp,
                                  now + SleepSeconds)
              IN  /\ retries' = retries + 1
                  /\ now' = now + SleepSeconds
                  /\ net' = net \o r.reqs
                  /\ IF HasStatus(r.ret)
                     THEN /\ status' = r.ret.f["TranscriptStatus"]
                          /\ transcript' = r.ret
                          /\ pc' = "polling"
                          /\ ret' = ret
                     ELSE /\ pc' = "ready"
                          /\ ret' = transcript
                          /\ transcript' = transcript
                          /\ status' = status
    /\ UNCHANGED <<op, args, call, self, raised>>

\* lines 331-342: one test of the while condition and the iteration or exit it leads to
Poll ==
    /\ pc = "polling"
    /\ IF ~StillPending(status) \/ BudgetSpent(retries)
       THEN /\ pc' = "ready"
            /\ ret' = transcript
            /\ UNCHANGED <<net, now, retries, transcript, status>>
       ELSE \E resp \in TranscriptResponses :
              LET r == invoke_api(self, TranscriptPath, "GET", EmptyMap, resp,
                                  now + SleepSeconds)
              IN  /\ retries' = retries + 1
                  /\ now' = now + SleepSeconds
                  /\ net' = net \o r.reqs
                  /\ transcript' = r.ret
                  /\ IF HasStatus(r.ret)
                     THEN /\ status' = r.ret.f["TranscriptStatus"]
                          /\ pc' = "polling"
                          /\ ret' = ret
                     ELSE pc' = "ready" /\ ret' = None /\ status' = status
    /\ UNCHANGED <<op, args, call, self, raised>>

InitSession ==
    /\ pc = "ready"
    /\ op = "__init__"
    /\ args = GivenArgs
    /\ call = NoCall
    /\ self \in Sessions
    /\ ret = None
    /\ raised = FALSE
    /\ net = <<>>
    /\ transcript = None
    /\ status = None
    /\ retries = 0
    /\ now = 0

NextTranscript == GetTranscript \/ Poll

SpecTranscript == InitSession /\ [][NextTranscript]_vars

----------------------------------------------------------------------------
(* Client.get_usercalls and Client.get_inbound_queuecalls *)

\* the 31 of "(et - st).days > 31"
MaxRangeDays == 31

\* a datetime: the instant t it denotes, in units, and whether it carries a tzinfo
DateTime(t, aware) == [tag |-> "datetime", t |-> t, aware |-> aware]

\* dt.astimezone(timezone.utc).strftime("%Y-%m-%d %H:%M:%S"): the text of the instant
\* in UTC; a naive datetime is read as local time, an aware one is converted
Format(dt) == Str(<<"utc", dt.t>>)

\* (b - a).days: whole days, rounded down; naive and aware datetimes do not subtract
Subtractable(a, b) == a.aware = b.aware
Days(a, b) == (b.t - a.t) \div UnitsPerDay

Has(fp, k) == k \in DOMAIN fp

\* one "if/elif" arm of the range check: normalise both ends, then test the span;
\* yields the normalised filter set, or what the helper returns at once
CheckRange(fp, from, to) ==
    LET a == fp[from]
        b == fp[to]
    IN  IF a.tag # "datetime" \/ b.tag # "datetime" THEN [stop |-> TRUE, r |-> Raise(<<>>)]
        ELSE IF ~Subtractable(a, b) THEN [stop |-> TRUE, r |-> Raise(<<>>)]
        ELSE IF Days(a, b) > MaxRangeDays THEN [stop |-> TRUE, r |-> Return(None, <<>>)]
        ELSE [stop |-> FALSE,
              fp |-> [k \in DOMAIN fp |->
                        IF k = from THEN Format(a) ELSE IF k = to THEN Format(b) ELSE fp[k]]]

get_usercalls_try(obj, fp, resp) ==
    LET v == IF Has(fp, "StartTime") /\ Has(fp, "EndTime")
             THEN CheckRange(fp, "StartTime", "EndTime")
             ELSE IF Has(fp, "ModifiedAfter") /\ Has(fp, "ModifiedBefore")
             THEN CheckRange(fp, "ModifiedAfter", "ModifiedBefore")
             ELSE IF Has(fp, "CallId")
             THEN [stop |-> FALSE, fp |-> fp]
             ELSE [stop |-> TRUE, r |-> Return(None, <<>>)]
    IN  IF v.stop THEN v.r
        ELSE LET calls == invoke_api(obj, Str(<<"/", "c">>), "GET", v.fp, resp, 0)
             IN  \* len(calls) raises on None
                 IF calls.ret = None THEN Raise(calls.reqs)
                 ELSE Return(calls.ret, calls.reqs)

get_usercalls(obj, fp, resp) == ExceptReturnNone(get_usercalls_try(obj, fp, resp))

\* get_inbound_queuecalls with the CallId arm of get_usercalls
get_inbound_queuecalls_callid(obj, fp, resp) ==
    LET v == IF Has(fp, "StartTime") /\ Has(fp, "EndTime")
             THEN CheckRange(fp, "StartTime", "EndTime")
             ELSE IF Has(fp, "ModifiedAfter") /\ Has(fp, "ModifiedBefore")
             THEN CheckRange(fp, "ModifiedAfter", "ModifiedBefore")
             ELSE IF Has(fp, "CallId")
             THEN [stop |-> FALSE, fp |-> fp]
             ELSE [stop |-> TRUE, r |-> Return(None, <<>>)]
    IN  IF v.stop THEN v.r
        ELSE invoke_api(obj, Str(<<"/", "s">>), "GET", v.fp, resp, 0)

get_inbound_queuecalls_try(obj, fp, resp) ==
    LET v == IF Has(fp, "StartTime") /\ Has(fp, "EndTime")
             THEN CheckRange(fp, "StartTime", "EndTime")
             ELSE IF Has(fp, "ModifiedAfter") /\ Has(fp, "ModifiedBefore")
             THEN CheckRange(fp, "ModifiedAfter", "ModifiedBefore")
             ELSE [stop |-> TRUE, r |-> Return(None, <<>>)]
    IN  IF v.stop THEN v.r
        ELSE invoke_api(obj, Str(<<"/", "s">>), "GET", v.fp, resp, 0)

get_inbound_queuecalls(obj, fp, resp) ==
    ExceptReturnNone(get_inbound_queuecalls_try(obj, fp, resp))

\* the filter sets the callers pass
FilterKeys == {"StartTime", "EndTime", "ModifiedAfter", "ModifiedBefore", "CallId"}
StartValues == {DateTime(t, a) : t \in 0..MaxStart, a \in BOOLEAN}
EndValues ==
    {DateTime(t, a) :
        t \in {0} \cup (MaxRangeDays * UnitsPerDay .. MaxRangeDays * UnitsPerDay + MaxOver),
        a \in BOOLEAN}
KeyValues(k) ==
    IF k \in {"StartTime", "ModifiedAfter"} THEN StartValues
    ELSE IF k \in {"EndTime", "ModifiedBefore"} THEN EndValues
    ELSE {Str(<<"c">>)}
FilterSets == UNION {{fp \in [K -> StartValues \cup EndValues \cup {Str(<<"c">>)}] :
                        \A k \in K : fp[k] \in KeyValues(k)} : K \in SUBSET FilterKeys}

CallsResponses ==
    {TransportError, Http(500, Dict(EmptyMap)), Http(200, List(<<>>)),
     Http(200, List(<<Dict(EmptyMap)>>))}

\* one call of get_usercalls by a caller that holds the constructed object
GetUsercalls ==
    /\ pc = "ready"
    /\ \E fp \in FilterSets, resp \in CallsResponses :
         LET r == get_usercalls(self, fp, resp)
         IN  /\ op' = "get_usercalls"
             /\ call' = [fn |-> "get_usercalls", filterParameters |-> fp, resp |-> resp]
             /\ ret' = r.ret
             /\ raised' = r.exc
             /\ net' = r.reqs
             /\ pc' = "returned"
    /\ UNCHANGED <<args, self, transcript, status, retries, now>>

\* one call of get_inbound_queuecalls
GetInboundQueuecalls ==
    /\ pc = "ready"
    /\ \E fp \in FilterSets, resp \in CallsResponses :
         LET r == get_inbound_queuecalls(self, fp, resp)
         IN  /\ op' = "get_inbound_queuecalls"
             /\ call' = [fn |-> "get_inbound_queuecalls", filterParameters |-> fp,
                         resp |-> resp]
             /\ ret' = r.ret
             /\ raised' = r.exc
             /\ net' = r.reqs
             /\ pc' = "returned"
    /\ UNCHANGED <<args, self, transcript, status, retries, now>>

NextQuery == GetUsercalls \/ GetInboundQueuecalls

SpecQuery == InitSession /\ [][NextQuery]_vars

----------------------------------------------------------------------------
(* Properties of the constructor and of invoke_api, checked under Spec *)

FullyResolved(obj) == DOMAIN obj = {"apiEndpoint", "secretkey", "userid"}

\* some call of invoke_api on the object sends a request
CanIssue(obj) ==
    \E path \in CallPaths, method \in CallMethods, resp \in ApiResponses :
        invoke_api(obj, path, method, EmptyMap, resp, 0).reqs # <<>>

EndsWithSlash(s) == Len(s) > 0 /\ s[Len(s)] = "/"

\* C1: once the constructor has returned, the session is fully resolved (apiEndpoint,
\* secretkey and userid all set) or no call of invoke_api on it issues a request.
C1_ResolvedOrUnusable ==
    (pc = "ready" /\ op = "__init__") => (FullyResolved(self) \/ ~CanIssue(self))

\* C7: a call of invoke_api issues at most one request, none for a method outside
\* GET/POST/PUT/DELETE or a missing path; it never raises; it returns the parsed body
\* when its one request got a success status and a parseable body, and None otherwise.
C7_InvokeApiSingleRequest ==
    op = "invoke_api" =>
        /\ Len(net) <= 1
        /\ (call.method \notin {"GET", "POST", "PUT", "DELETE"} \/ call.path = None)
              => net = <<>>
        /\ ~raised
        /\ \A i \in 1..Len(net) : net[i].resp = call.resp /\ net[i].method = call.method
        /\ IF Len(net) = 1 /\ ~call.resp.err /\ call.resp.status < 400
              /\ call.resp.json # Garbage
           THEN ret = call.resp.json
           ELSE ret = None

\* a call whose request succeeded and gave a record back
C7_Witness ==
    /\ op = "invoke_api"
    /\ Len(net) = 1
    /\ call.resp = Http(200, Dict("Id" :> Str(<<"7">>)))
    /\ ret = Dict("Id" :> Str(<<"7">>))

\* C9: the constructor never lets an exception reach its caller, whatever the
\* discovery, password-exchange and identity calls answer.
C9_ConstructionNeverRaises == op = "__init__" => (~raised /\ pc # "raised")

\* C10: a base address taken from a discovery answer that ends with a separator has no
\* trailing separator, and no URL built on a discovered base address has two
\* separators where the base address and the path meet.
C10_DiscoveredEndpointNormalized ==
    /\ (/\ op = "__init__"
        /\ args.apiEndpoint = None
        /\ "apiEndpoint" \in DOMAIN self
        /\ EndsWithSlash(net[1].resp.json.items[1].f["apiEndpoint"].v))
          => ~EndsWithSlash(self["apiEndpoint"].v)
    /\ (op = "invoke_api" /\ args.apiEndpoint = None) =>
          \A i \in 1..Len(net) :
              LET n == Len(self["apiEndpoint"].v)
              IN  ~(n > 0 /\ net[i].url[n] = "/" /\ net[i].url[n + 1] = "/")

----------------------------------------------------------------------------
(* Properties of get_transcript, checked under SpecTranscript *)

Returned(fn) == pc = "ready" /\ op = fn

\* the fetch was answered with a record whose status is Pending / with any status
AnsweredPending(req) ==
    /\ ~req.resp.err
    /\ req.resp.status < 400
    /\ req.resp.json.tag = "dict"
    /\ "TranscriptStatus" \in DOMAIN req.resp.json.f
    /\ req.resp.json.f["TranscriptStatus"] = Str("Pending")
AnsweredStatus(req) ==
    /\ ~req.resp.err
    /\ req.resp.status < 400
    /\ req.resp.json.tag = "dict"
    /\ "TranscriptStatus" \in DOMAIN req.resp.json.f

\* C2: with wait_pending, a transcript that is Pending on every fetch is fetched
\* exactly 11 times, the i-th fetch after (i-1) sleeps of 10 units, and the call ends.
C2_PendingForeverElevenFetches ==
    /\ (op = "get_transcript" /\ call.wait_pending) => Len(net) <= 11
    /\ (/\ Returned("get_transcript")
        /\ call.wait_pending
        /\ \A i \in 1..Len(net) : AnsweredPending(net[i]))
          => /\ Len(net) = 11
             /\ \A i \in 1..Len(net) : net[i].at = 10 * (i - 1)
             /\ now = 100

C2_Witness ==
    /\ Returned("get_transcript")
    /\ call.wait_pending
    /\ Len(net) = 11
    /\ \A i \in 1..Len(net) : AnsweredPending(net[i])
    /\ ret = Dict("TranscriptStatus" :> Str("Pending"))

\* fetch j is the first one answered with a status other than Pending
FirstNonPending(j) ==
    /\ \A i \in 1..(j - 1) : AnsweredPending(net[i])
    /\ AnsweredStatus(net[j])
    /\ ~AnsweredPending(net[j])

\* C3: with wait_pending, k Pending answers (1 <= k <= 10) followed by another status
\* give exactly k+1 fetches, and the record of the last fetch is returned.
C3_StopsAtFirstNonPending ==
    (op = "get_transcript" /\ call.wait_pending) =>
        \A j \in 2..Len(net) :
            FirstNonPending(j) =>
                /\ j = Len(net)
                /\ j - 1 <= 10
                /\ Returned("get_transcript") => ret = net[j].resp.json

\* Pending, Pending, Ready: three fetches and the Ready record
C3_Witness ==
    /\ Returned("get_transcript")
    /\ call.wait_pending
    /\ Len(net) = 3
    /\ AnsweredPending(net[1])
    /\ AnsweredPending(net[2])
    /\ net[3].resp = Http(200, Dict("TranscriptStatus" :> Str("Ready")))
    /\ ret = Dict("TranscriptStatus" :> Str("Ready"))

\* C8: without wait_pending there is exactly one fetch and no sleep, whatever status
\* the fetch returns, and the call returns the record fetched (None for a failed fetch).
C8_NoWaitSingleFetch ==
    (op = "get_transcript" /\ ~call.wait_pending) =>
        /\ pc = "ready"
        /\ Len(net) = 1
        /\ now = 0
        /\ AnsweredStatus(net[1]) => ret = net[1].resp.json
        /\ (net[1].resp.err \/ net[1].resp.status >= 400) => ret = None

C8_Witness ==
    /\ Returned("get_transcript")
    /\ ~call.wait_pending
    /\ Len(net) = 1
    /\ AnsweredPending(net[1])
    /\ ret = Dict("TranscriptStatus" :> Str("Pending"))

----------------------------------------------------------------------------
(* Properties of the query helpers, checked under SpecQuery *)

\* both ends of the range are given and it spans more than 31 days
RangeTooLong(fp, from, to) ==
    /\ Has(fp, from)
    /\ Has(fp, to)
    /\ fp[to].t - fp[from].t > 31 * UnitsPerDay

HasPair(fp, from, to) == Has(fp, from) /\ Has(fp, to)

Shapes(fp) ==
    {sh \in {"absolute", "modified", "identifier"} :
        \/ sh = "absolute" /\ HasPair(fp, "StartTime", "EndTime")
        \/ sh = "modified" /\ HasPair(fp, "ModifiedAfter", "ModifiedBefore")
        \/ sh = "identifier" /\ Has(fp, "CallId")}

\* C4: a filter set whose StartTime..EndTime or ModifiedAfter..ModifiedBefore range is
\* longer than 31 days makes the helper return None without any request.
C4_LongRangeRejected ==
    (/\ pc = "returned"
     /\ \/ RangeTooLong(call.filterParameters, "StartTime", "EndTime")
        \/ RangeTooLong(call.filterParameters, "ModifiedAfter", "ModifiedBefore"))
      => (ret = None /\ net = <<>>)

\* both ends of the range are in the query parameters and one is not normalised text
RawRangeSent(params, from, to) ==
    /\ HasPair(params, from, to)
    /\ (params[from].tag # "str" \/ params[to].tag # "str")

\* C5: a request is issued only for a filter set of exactly one shape, so no time
\* range goes out that was not validated and normalised to text.
C5_ExactlyOneShape ==
    (pc = "returned" /\ net # <<>>) =>
        /\ Cardinality(Shapes(call.filterParameters)) = 1
        /\ ~RawRangeSent(net[1].params, "StartTime", "EndTime")
        /\ ~RawRangeSent(net[1].params, "ModifiedAfter", "ModifiedBefore")

\* the helper recognises a shape in the filter set
Recognized(fn, fp) ==
    \/ HasPair(fp, "StartTime", "EndTime")
    \/ HasPair(fp, "ModifiedAfter", "ModifiedBefore")
    \/ fn = "get_usercalls" /\ Has(fp, "CallId")

----------------------------------------------------------------------------
(* The order of the constructor's requests, checked under Spec *)

Kinds(reqs) == [i \in 1..Len(reqs) |-> reqs[i].kind]
Issued(kind) == \E i \in 1..Len(net) : net[i].kind = kind

\* C11: the constructor's requests are, in this order and each at most once, the
\* discovery (only without a supplied apiEndpoint), the password exchange (only without
\* a supplied secretkey, with a password, and with the base address resolved) and the
\* authenticated GET users/me (only with base address and secret key resolved); after a
\* failed step, or without both password and secretkey, no later request is issued.
C11_BootstrapOrder ==
    op = "__init__" =>
        /\ Kinds(net) \in {<<>>, <<"discovery">>, <<"authuser">>, <<"api">>,
                           <<"discovery", "authuser">>, <<"discovery", "api">>,
                           <<"authuser", "api">>, <<"discovery", "authuser", "api">>}
        /\ Issued("discovery") => args.apiEndpoint = None
        /\ (pc # "init_endpoint" /\ args.apiEndpoint = None) => Issued("discovery")
        /\ Issued("authuser") =>
              /\ args.secretkey = None
              /\ args.password # None
              /\ "apiEndpoint" \in DOMAIN self
        /\ Issued("api") =>
              /\ {"apiEndpoint", "secretkey"} \subseteq DOMAIN self
              /\ net[Len(net)].kind = "api"
              /\ net[Len(net)].auth
              /\ net[Len(net)].method = "GET"
        /\ "apiEndpoint" \notin DOMAIN self => Len(net) <= 1 /\ ~Issued("authuser")
              /\ ~Issued("api")
        /\ "secretkey" \notin DOMAIN self => ~Issued("api")
        /\ (args.secretkey = None /\ args.password = None) =>
              ~Issued("authuser") /\ ~Issued("api")
        /\ pc \in {"ready", "raised"} =>
              /\ (args.secretkey = None /\ args.password # None
                     /\ "apiEndpoint" \in DOMAIN self) => Issued("authuser")
              /\ {"apiEndpoint", "secretkey"} \subseteq DOMAIN self => Issued("api")

\* a construction that needed all three requests and resolved the session
C11_Witness ==
    /\ op = "__init__"
    /\ pc = "ready"
    /\ Kinds(net) = <<"discovery", "authuser", "api">>
    /\ FullyResolved(self)

----------------------------------------------------------------------------
(* Failed fetches in get_transcript, checked under SpecTranscript *)

\* invoke_api yields None for the fetch
FetchFailed(req) ==
    \/ req.resp.err
    \/ req.resp.status >= 400
    \/ req.resp.json = Garbage
    \/ req.resp.json = None

IsPendingRecord(v) ==
    /\ v.tag = "dict"
    /\ "TranscriptStatus" \in DOMAIN v.f
    /\ v.f["TranscriptStatus"] = Str("Pending")

\* C12: with wait_pending, a failed fetch (the first or a later one) is the last fetch
\* and makes get_transcript return None, not the Pending record fetched before; so a
\* Pending record is returned only after the 10 retries are used up, and it is the
\* record of the last fetch.
C12_FailedFetchReturnsNone ==
    (op = "get_transcript" /\ call.wait_pending) =>
        /\ \A j \in 1..Len(net) :
              FetchFailed(net[j]) => (j = Len(net) /\ pc = "ready" /\ ret = None)
        /\ (pc = "ready" /\ IsPendingRecord(ret)) =>
              /\ Len(net) = 11
              /\ retries = 10
              /\ \A i \in 1..Len(net) : AnsweredPending(net[i])
              /\ ret = net[Len(net)].resp.json

\* Pending, Pending, then a transport error: three fetches and None
C12_Witness ==
    /\ Returned("get_transcript")
    /\ call.wait_pending
    /\ Len(net) = 3
    /\ AnsweredPending(net[1])
    /\ AnsweredPending(net[2])
    /\ net[3].resp = TransportError
    /\ ret = None

\* the budget is used up on records that differ, and the last one is returned
C12_ExhaustedWitness ==
    /\ Returned("get_transcript")
    /\ call.wait_pending
    /\ Len(net) = 11
    /\ net[10].resp.json = Dict("TranscriptStatus" :> Str("Pending"))
    /\ net[11].resp.json # net[10].resp.json
    /\ IsPendingRecord(ret)
    /\ ret = net[11].resp.json

====
